---- MODULE Spec2Model ----
(***************************************************************************)
(* State-machine model of nmea/fake.py: the TestSession scheduler with its *)
(* DaemonInstance controller (specifications Spec and DaemonSpec), the     *)
(* scheduler run in synchronous mode on a longer run-queue (SyncSpec), the *)
(* GPSSimulator with its ShipPlan (SimSpec), the ShipPlan on its own       *)
(* (PlanSpec) and the TestLoad digest of a capture (LoadSpec).             *)
(*                                                                         *)
(* Granularity of Spec: the caller's operations are atomic; a scheduling   *)
(* turn of run() is two steps, the locked part of choose() and then the    *)
(* unlocked read of the run-queue with the dispatch on the chosen entry;   *)
(* DaemonInstance.kill() is one step per os.kill() call.                   *)
(***************************************************************************)
EXTENDS Integers, Sequences, FiniteSets, TLC

\* ------------------------------------------------------------------ bounds
MaxEntries == 2
MaxQueue == 3
MaxFeeds == 1
MaxTime == 3
MaxSignals == 2
MaxKillCalls == 4

\* ------------------------------------------------------- program constants
CLOSE_DELAY == 1

NoPid == 0
DaemonPid == 1

VARIABLES
  pc,            \* position of the thread that executes run(), or "idle"
  error,         \* exception that left run(), "none" if none
  daemonRef,     \* TestSession.daemon is not None
  pid,           \* DaemonInstance.pid (NoPid models None)
  procAlive,     \* the daemon process exists
  signals,       \* SIGTERMs delivered to the daemon process
  killCalls,     \* invocations of DaemonInstance.kill()
  teardowns,     \* executions of cleanup() that found a daemon handle
  killRet,       \* where control goes when the kill() in progress returns
  killCleanup,   \* the kill() in progress was called by cleanup()
  threadlock,    \* TestSession.threadlock is not None
  lockHeld,      \* the lock was left acquired by a failed choose()
  worker,        \* the Thread object made by start()
  defaultPred,   \* TestSession.default_predicate is not None
  gpsCount,      \* number of gps_add calls so far
  fakegpslist,   \* devices registered in TestSession.fakegpslist
  devKind,       \* class of each device: "pty" (FakePTY) or "udp" (FakeUDP)
  devPred,       \* go_predicate attribute of each device
  exhausted,     \* device.exhausted (0 = not exhausted)
  fed,           \* records fed by each device
  clientId,      \* TestSession.client_id
  enqueued,      \* client.enqueued is non-empty
  waiting,       \* client.waiting(): the daemon has responses ready for the client
  runqueue,      \* TestSession.runqueue
  index,         \* TestSession.index
  chosenIdx,     \* local variable chosen of choose()
  writers,       \* TestSession.writers
  readers,       \* TestSession.readers
  hadOutput,     \* local variable had_output of run()
  emptyAtEntry,  \* the run-queue was empty when run() was entered
  retired,       \* devices reported by "gpsfake: GPS %s removed"
  goResult,      \* what the go_predicate call of the turn returned, "none" without a call
  goIndex,       \* the index argument of the last go_predicate call, 0 before any
  since,         \* per entry: the entries chosen since its last turn, itself included
  drained,       \* devices whose read() was called at the start of the turn
  now,           \* time.time(), in seconds
  sim,           \* the fields of the GPSSimulator
  plan,          \* the ShipPlan bound to it (bound = FALSE: shipplan is None)
  sentence,      \* the string returned by the last feed(), as ASCII codes
  feedCalls,     \* calls of GPSSimulator.feed()
  emitted,       \* sentences returned by feed()
  stepCalls,     \* direct calls of GPSSimulator.nextPos()
  courses,       \* results of the courseAtTime calls made on the plan as it is
  origin,        \* latitude and longitude given to the GPSSimulator constructor
  capture,       \* what the sniffer has returned to TestLoad.__init__ so far
  loadState,     \* TestLoad.__init__: "reading", "loaded", or the TestLoadError message
  sentences,     \* TestLoad.sentences
  sourcetype,    \* TestLoad.sourcetype
  serial,        \* TestLoad.serial (<<>> models None)
  typeLatch      \* local variable type_latch of TestLoad.__init__ ("" models None)

daemonVars == <<daemonRef, pid, procAlive, signals, killCalls, teardowns, killRet, killCleanup>>
threadVars == <<threadlock, lockHeld, worker>>
devVars == <<gpsCount, fakegpslist, devKind, devPred, exhausted, fed>>
cliVars == <<clientId, enqueued, waiting>>
queueVars == <<runqueue, index, writers, readers>>
runVars == <<pc, error, chosenIdx, hadOutput, emptyAtEntry, retired, goResult, goIndex, since, drained>>
loadVars == <<capture, loadState, sentences, sourcetype, serial, typeLatch>>
libVars == <<courses, origin, loadVars>>
navVars == <<sim, plan, sentence, feedCalls, emitted, stepCalls>>
simVars == <<sim, plan, sentence, feedCalls, emitted, stepCalls, libVars>>
vars == <<runVars, daemonVars, threadVars, defaultPred, devVars, cliVars, queueVars, now, simVars>>

\* Devices and clients are numbered in the order of gps_add and client_add;
\* MaxEntries bounds the entries ever put in the run-queue.
Devices == 1..MaxEntries
Clients == 1..MaxEntries

Gps(d) == <<"gps", d>>
Cli(c) == <<"cli", c>>

Entries == {Gps(d) : d \in Devices} \cup {Cli(c) : c \in Clients}

Min(a, b) == IF a < b THEN a ELSE b

\* Python list indexing: positions -len..len-1 are valid, negative ones count
\* from the end.
InRange(q, i) == i >= -Len(q) /\ i < Len(q)
PyPos(q, i) == IF i < 0 THEN Len(q) + i + 1 ELSE i + 1

InQueue(e) == \E i \in 1..Len(runqueue) : runqueue[i] = e

\* list.remove(obj): drops the first occurrence of obj.
ListRemove(q, e) ==
  LET p == CHOOSE i \in 1..Len(q) : q[i] = e /\ \A j \in 1..(i-1) : q[j] # e
  IN [i \in 1..(Len(q)-1) |-> IF i < p THEN q[i] ELSE q[i+1]]

\* ------------------------------------------- GPSSimulator and ShipPlan
\* Numbers of the simulator: a position is an integer count of 1/10000 arc
\* minutes (600000 to the degree), the clock is in whole seconds, a speed is in
\* 1/100 knot, a heading in whole degrees.  Strings are sequences of ASCII
\* codes.
UnitsPerDegree == 600000

\* Bounds of the simulator's inputs.
MaxSimCalls == 3
MaxSimSteps == 4

RECURSIVE DecDigits(_)
DecDigits(n) == IF n < 10 THEN <<48 + n>> ELSE DecDigits(n \div 10) \o <<48 + (n % 10)>>

RECURSIVE ZeroPad(_, _)
ZeroPad(str, w) == IF Len(str) >= w THEN str ELSE ZeroPad(<<48>> \o str, w)

\* "%02d"
Fmt02d(n) == ZeroPad(DecDigits(n), 2)

\* "%06.3f" of a value given in thousandths
Fmt063f(th) == ZeroPad(DecDigits(th \div 1000) \o <<46>> \o ZeroPad(DecDigits(th % 1000), 3), 6)

\* "%.2f" of a value given in hundredths
Fmt2f(c) == DecDigits(c \div 100) \o <<46>> \o ZeroPad(DecDigits(c % 100), 2)

HexChar(d) == IF d < 10 THEN 48 + d ELSE 55 + d

RECURSIVE HexDigits(_)
HexDigits(n) == IF n < 16 THEN <<HexChar(n)>> ELSE HexDigits(n \div 16) \o <<HexChar(n % 16)>>

\* "%02X"
Fmt02X(v) == ZeroPad(HexDigits(v), 2)

\* operator.xor on non-negative integers
RECURSIVE Xor(_, _)
Xor(a, b) ==
  IF a = 0 THEN b
  ELSE IF b = 0 THEN a
  ELSE 2 * Xor(a \div 2, b \div 2) + ((a + b) % 2)

\* "reduce(operator.xor, (ord(s) for s in sentance), 0)": the XOR of 0 and of
\* the bytes lo..hi of the string.  The fold is evaluated by halves, which
\* for an associative operator is the fold from the left.
RECURSIVE XorFold(_, _, _)
XorFold(str, lo, hi) ==
  IF lo > hi THEN 0
  ELSE IF lo = hi THEN Xor(0, str[lo])
  ELSE Xor(XorFold(str, lo, (lo + hi) \div 2), XorFold(str, (lo + hi) \div 2 + 1, hi))

RECURSIVE SumFold(_, _, _)
SumFold(str, lo, hi) ==
  IF lo > hi THEN 0
  ELSE IF lo = hi THEN str[lo]
  ELSE (SumFold(str, lo, (lo + hi) \div 2) + SumFold(str, (lo + hi) \div 2 + 1, hi)) % 256

Checksum_Sum(body) == SumFold(body, 1, Len(body))
Checksum(body) == XorFold(body, 1, Len(body))

Abs(x) == IF x < 0 THEN -x ELSE x

\* The text of one coordinate in setLatLon:
\* "%02d%06.3f" % (floor(abs), (abs - floor(abs)) * 60)
CoordTxt(x) ==
  LET a == Abs(x)
      minutes == a % UnitsPerDegree
  IN Fmt02d(a \div UnitsPerDegree) \o Fmt063f((minutes + 5) \div 10)

\* setLatLon(lat, lon): the numbers and, with them, their texts and signs
\* ('S' and 'W' only below zero).
SetLatLon(g, lat, lon) ==
  [g EXCEPT !.lat = lat,
            !.latTxt = CoordTxt(lat),
            !.latSign = IF lat < 0 THEN 83 ELSE 78,
            !.lon = lon,
            !.lonTxt = CoordTxt(lon),
            !.lonSign = IF lon < 0 THEN 87 ELSE 69]

\* Python's %: the result has the sign of the divisor (the divisor is not 0).
PyMod(a, b) == IF b > 0 THEN a % b ELSE -((-a) % (-b))

\* ShipPlan(): no legs, total length 0.
NewPlan(lat, lon) == [bound |-> TRUE, legs |-> <<>>, total |-> 0, startlat |-> lat, startlon |-> lon]
NoPlan == [bound |-> FALSE, legs |-> <<>>, total |-> 0, startlat |-> 0, startlon |-> 0]

\* addLeg(length, course, speed): "self._totalLength += length"
AddLeg_FiniteOnly(p, length, course, speed) ==
  [p EXCEPT !.legs = Append(p.legs, [length |-> length, course |-> course, speed |-> speed]),
            !.total = p.total + (IF length >= 0 THEN length ELSE 0)]
AddLeg(p, length, course, speed) ==
  [p EXCEPT !.legs = Append(p.legs, [length |-> length, course |-> course, speed |-> speed]),
            !.total = p.total + length]

\* The loop of courseAtTime over the legs: the first leg that is negative or
\* whose accumulated end lies beyond when; the last leg if there is none.
RECURSIVE LegScan_Inclusive(_, _, _, _)
LegScan_Inclusive(legs, i, acc, when) ==
  IF i > Len(legs) THEN legs[Len(legs)]
  ELSE IF legs[i].length < 0 THEN legs[i]
  ELSE IF when <= acc + legs[i].length THEN legs[i]
  ELSE LegScan_Inclusive(legs, i + 1, acc + legs[i].length, when)
RECURSIVE LegScan(_, _, _, _)
LegScan(legs, i, acc, when) ==
  IF i > Len(legs) THEN legs[Len(legs)]
  ELSE IF legs[i].length < 0 THEN legs[i]
  ELSE IF when < acc + legs[i].length THEN legs[i]
  ELSE LegScan(legs, i + 1, acc + legs[i].length, when)

\* courseAtTime(when, sim) raises ZeroDivisionError on a total length of 0.
CourseFails(p) == p.total = 0

\* "when = when % self._totalLength"
WhenOf(p, when) == PyMod(when, p.total)

\* courseAtTime(when, sim): (course, speed), as a leg record
CourseAtTime(p, when) == LegScan(p.legs, 1, 0, WhenOf(p, when))

\* gmtime(t) printed as "%02d%02d%02d.000"
TimeStr(t) ==
  Fmt02d((t \div 3600) % 24) \o Fmt02d((t \div 60) % 60) \o Fmt02d(t % 60) \o <<46, 48, 48, 48>>

\* _setTime(newtime): with a plan, the course lookup (which puts the simulator
\* back on the plan's start position when the elapsed time wraps to 0) sets
\* heading and speed; then the clock and its text are stored.
\* _setTime(newtime): the argument of courseAtTime, newtime - self._starttime.
\* nextPos() passes self._time + 1, so the new second is already counted.
ElapsedAt_ClockBefore(g, newtime) == g.time - g.start
ElapsedAt(g, newtime) == newtime - g.start

SetTime(g, p, newtime) ==
  LET elapsed == ElapsedAt(g, newtime)
      g1 == IF p.bound /\ WhenOf(p, elapsed) = 0
              THEN SetLatLon(g, p.startlat, p.startlon) ELSE g
      g2 == IF p.bound
              THEN [g1 EXCEPT !.heading = CourseAtTime(p, elapsed).course,
                              !.speed = CourseAtTime(p, elapsed).speed]
              ELSE g1
  IN [g2 EXCEPT !.time = newtime, !.timestr = TimeStr(newtime)]

\* GPSSimulator(currtime, latitude, longitude, course, speed, shipplan)
NewSimulator(currtime, lat, lon, course, speed, p) ==
  LET g0 == [lat |-> 0, latTxt |-> <<>>, latSign |-> 78,
             lon |-> 0, lonTxt |-> <<>>, lonSign |-> 69,
             time |-> currtime, timestr |-> <<>>, start |-> currtime,
             heading |-> course, speed |-> speed]
  IN SetTime(SetLatLon(g0, lat, lon), p, currtime)

\* nextPos(): the distance sailed in one second, speed * (1/3600) nautical
\* miles on a sphere of radius 6371/1.852 nautical miles, is 0.027759 position
\* units for each 1/100 knot.
StepUnits_PerMinute(speed) == (speed * 27759 * 60 + 500000) \div 1000000
StepUnits(speed) == (speed * 27759 + 500000) \div 1000000

\* "(lon2R + 3*math.pi) % (2*math.pi) - math.pi"
NormLon(lon) == ((lon + 540 * UnitsPerDegree) % (360 * UnitsPerDegree)) - 180 * UnitsPerDegree

\* The great-circle step of nextPos() for a heading along the meridian
\* (0 or 180 degrees): the latitude moves by the distance, reflected at a pole,
\* where the longitude turns by 180 degrees.
DeadReckon(g) ==
  LET raw == IF g.heading = 0 THEN g.lat + StepUnits(g.speed) ELSE g.lat - StepUnits(g.speed)
      top == 90 * UnitsPerDegree
  IN IF raw > top THEN <<2 * top - raw, NormLon(g.lon + 180 * UnitsPerDegree)>>
     ELSE IF raw < -top THEN <<-2 * top - raw, NormLon(g.lon + 180 * UnitsPerDegree)>>
     ELSE <<raw, NormLon(g.lon)>>

\* nextPos(): "self._setTime(self._time+1)"
TimeAfterStep_Twice(t) == t + 2
TimeAfterStep(t) == t + 1

\* nextPos()
NextPos(g, p) ==
  LET g1 == SetTime(g, p, TimeAfterStep(g.time))
  IN SetLatLon(g1, DeadReckon(g1)[1], DeadReckon(g1)[2])

\* The body of the sentence built by feed():
\* "GPRMC,%s,A,%s,%s,%s,%s,%.2f,%.2f,280511,,,S"
SentenceBody(g) ==
  <<71, 80, 82, 77, 67, 44>> \o g.timestr \o <<44, 65, 44>>
    \o g.latTxt \o <<44, g.latSign, 44>> \o g.lonTxt \o <<44, g.lonSign, 44>>
    \o Fmt2f(g.speed) \o <<44>> \o Fmt2f(g.heading * 100)
    \o <<44, 50, 56, 48, 53, 49, 49, 44, 44, 44, 83>>

\* "$%s*%02X\r\n" % (sentance, calc_cksum)
Wrap(body) == <<36>> \o body \o <<42>> \o Fmt02X(Checksum(body)) \o <<13, 10>>

\* The simulator of the first test of gpssimtest.py: 57 42.4338 N, 11 41.7128 E.
FixtureSim == NewSimulator(1330759882, 34624338, 7017128, 0, 100, NoPlan)

\* The session after TestSession(): a DaemonInstance without pid, nothing
\* queued.
SessionInit ==
  /\ pc = "idle"
  /\ error = "none"
  /\ daemonRef = TRUE
  /\ pid = NoPid
  /\ procAlive = FALSE
  /\ signals = 0
  /\ killCalls = 0
  /\ teardowns = 0
  /\ killRet = "idle"
  /\ killCleanup = FALSE
  /\ threadlock = FALSE
  /\ lockHeld = FALSE
  /\ worker = "none"
  /\ defaultPred = FALSE
  /\ gpsCount = 0
  /\ fakegpslist = {}
  /\ devKind = [d \in Devices |-> "pty"]
  /\ devPred = [d \in Devices |-> "unset"]
  /\ exhausted = [d \in Devices |-> 0]
  /\ fed = [d \in Devices |-> 0]
  /\ clientId = 0
  /\ enqueued = [c \in Clients |-> FALSE]
  /\ waiting = [c \in Clients |-> FALSE]
  /\ runqueue = <<>>
  /\ index = 0
  /\ chosenIdx = 0
  /\ writers = 0
  /\ readers = 0
  /\ hadOutput = FALSE
  /\ emptyAtEntry = FALSE
  /\ retired = {}
  /\ goResult = "none"
  /\ goIndex = 0
  /\ since = [e \in Entries |-> {}]
  /\ drained = {}
  /\ now = 1

\* Nothing has been asked of a plan yet.
\* TestLoad.__init__ before its loop: no sentences, a pty source, no serial
\* parameters, no packet type seen.
LoadInit ==
  /\ capture = <<>>
  /\ loadState = "reading"
  /\ sentences = <<>>
  /\ sourcetype = "pty"
  /\ serial = <<>>
  /\ typeLatch = ""

LibInit ==
  /\ courses = {}
  /\ origin = <<34624338, 7017128>>
  /\ LoadInit

Init ==
  /\ SessionInit
  /\ sim = FixtureSim
  /\ plan = NoPlan
  /\ sentence = <<>>
  /\ feedCalls = 0
  /\ emitted = 0
  /\ stepCalls = 0
  /\ LibInit

\* The caller's thread can invoke an operation of the session: before run(),
\* or, in threaded mode, while another thread executes the loop of run().
\* A lock left acquired by choose() blocks every later acquire().
CallerCanAct ==
  /\ pc = "idle" \/ (threadlock /\ pc \in {"top", "chosen"})
  /\ ~lockHeld

\* ------------------------------------------------------- DaemonInstance
\* TestSession.spawn: daemon.spawn followed by wait_pid, which stores the pid.
Spawn ==
  /\ pc = "idle"
  /\ daemonRef
  /\ pid = NoPid
  /\ pid' = DaemonPid
  /\ procAlive' = TRUE
  /\ UNCHANGED <<daemonRef, signals, killCalls, teardowns, killRet, killCleanup>>
  /\ UNCHANGED <<runVars, threadVars, defaultPred, devVars, cliVars, queueVars, now, simVars>>

\* The daemon process ends (after a SIGTERM, or by itself).
ProcExit ==
  /\ procAlive
  /\ procAlive' = FALSE
  /\ UNCHANGED <<daemonRef, pid, signals, killCalls, teardowns, killRet, killCleanup>>
  /\ UNCHANGED <<runVars, threadVars, defaultPred, devVars, cliVars, queueVars, now, simVars>>

\* kill(): "if self.pid:".
KillGuard(p) == p # NoPid

\* kill(): "self.pid = None" once os.kill has raised OSError.
PidAfterKill_Kept(p) == p
PidAfterKill(p) == NoPid

\* kill() called directly on the DaemonInstance.
DaemonKill ==
  /\ pc \in {"idle", "done", "raised"}
  /\ killCalls < MaxKillCalls
  /\ killCalls' = killCalls + 1
  /\ IF KillGuard(pid)
       THEN /\ pc' = "killing"
            /\ killRet' = pc
            /\ killCleanup' = FALSE
       ELSE UNCHANGED <<pc, killRet, killCleanup>>
  /\ UNCHANGED <<daemonRef, pid, procAlive, signals, teardowns>>
  /\ UNCHANGED <<error, chosenIdx, hadOutput, emptyAtEntry, retired, goResult, goIndex, since, drained>>
  /\ UNCHANGED <<threadVars, defaultPred, devVars, cliVars, queueVars, now, simVars>>

\* One os.kill(self.pid, SIGTERM) that reaches the process.
KillSignal ==
  /\ pc = "killing"
  /\ procAlive
  /\ signals < MaxSignals
  /\ signals' = signals + 1
  /\ UNCHANGED <<daemonRef, pid, procAlive, killCalls, teardowns, killRet, killCleanup>>
  /\ UNCHANGED <<runVars, threadVars, defaultPred, devVars, cliVars, queueVars, now, simVars>>

\* os.kill raises OSError (no such process): kill() clears the pid and
\* returns; a cleanup() that called it then drops the daemon handle.
KillFinish ==
  /\ pc = "killing"
  /\ ~procAlive
  /\ pid' = PidAfterKill(pid)
  /\ daemonRef' = IF killCleanup THEN FALSE ELSE daemonRef
  /\ pc' = killRet
  /\ killCleanup' = FALSE
  /\ UNCHANGED <<procAlive, signals, killCalls, teardowns, killRet>>
  /\ UNCHANGED <<error, chosenIdx, hadOutput, emptyAtEntry, retired, goResult, goIndex, since, drained>>
  /\ UNCHANGED <<threadVars, defaultPred, devVars, cliVars, queueVars, now, simVars>>

\* cleanup(): "if self.daemon: self.daemon.kill(); self.daemon = None",
\* after which control goes to final.  Leaves pid, procAlive and signals to
\* the steps of kill().
Cleanup(final) ==
  IF daemonRef
    THEN /\ teardowns' = teardowns + 1
         /\ killCalls' = killCalls + 1
         /\ IF KillGuard(pid)
              THEN /\ pc' = "killing"
                   /\ killRet' = final
                   /\ killCleanup' = TRUE
                   /\ UNCHANGED daemonRef
              ELSE /\ pc' = final
                   /\ daemonRef' = FALSE
                   /\ UNCHANGED <<killRet, killCleanup>>
    ELSE /\ pc' = final
         /\ UNCHANGED <<daemonRef, teardowns, killCalls, killRet, killCleanup>>

\* cleanup() called by the caller before run().
UserCleanup ==
  /\ pc = "idle"
  /\ daemonRef
  /\ Cleanup("idle")
  /\ UNCHANGED <<pid, procAlive, signals>>
  /\ UNCHANGED <<error, chosenIdx, hadOutput, emptyAtEntry, retired, goResult, goIndex, since, drained>>
  /\ UNCHANGED <<threadVars, defaultPred, devVars, cliVars, queueVars, now, simVars>>

\* ---------------------------------------------------- caller operations
\* set_predicate(pred)
SetPredicate ==
  /\ pc = "idle"
  /\ \E p \in BOOLEAN : defaultPred' = p
  /\ UNCHANGED <<runVars, daemonVars, threadVars, devVars, cliVars, queueVars, now, simVars>>

\* start(): makes the lock and a Thread object; the Thread object is never
\* started.
WorkerAfterStart == "created"

Start ==
  /\ pc = "idle"
  /\ ~threadlock
  /\ threadlock' = TRUE
  /\ worker' = WorkerAfterStart
  /\ UNCHANGED lockHeld
  /\ UNCHANGED <<runVars, daemonVars, defaultPred, devVars, cliVars, queueVars, now, simVars>>

\* go_predicate of a device made by gps_add: the pred argument, else the
\* session default, else what the constructor left: FakeLogGPS.__init__
\* (FakeUDP) stores a lambda without parameters, FakePTY.__init__ stores
\* nothing.
PredicateOf(udp, predGiven) ==
  IF predGiven \/ defaultPred THEN "user"
  ELSE IF udp THEN "lambda0" ELSE "unset"

\* append(obj): writers is counted for FakeLogGPS and for FakePTY.
WritersAfterAppend(kind) == writers + 1

\* remove(obj): writers is counted down for FakeLogGPS instances only;
\* FakePTY is not a subclass of FakeLogGPS.
WritersAfterRemove(kind) == IF kind = "udp" THEN writers - 1 ELSE writers

\* remove(obj): "self.index = min(len(self.runqueue)-1, self.index)"
IndexAfterRemove(q) == Min(Len(q) - 1, index)

\* gps_add(logfile, speed, pred).  If the session has no daemon any more,
\* the final daemon.add_device raises to the caller after the device was
\* queued.
GpsAddCall ==
  /\ CallerCanAct
  /\ \E udp \in BOOLEAN, predGiven \in BOOLEAN :
       LET d == gpsCount + 1
           kind == IF udp THEN "udp" ELSE "pty"
       IN /\ gpsCount' = d
          /\ devKind' = [devKind EXCEPT ![d] = kind]
          /\ devPred' = [devPred EXCEPT ![d] = PredicateOf(udp, predGiven)]
          /\ fakegpslist' = fakegpslist \cup {d}
          /\ runqueue' = Append(runqueue, Gps(d))
          /\ writers' = WritersAfterAppend(kind)
          /\ exhausted' = [exhausted EXCEPT ![d] = 0]
  /\ UNCHANGED <<fed, index, readers>>
  /\ UNCHANGED <<runVars, daemonVars, threadVars, defaultPred, cliVars, now, simVars>>

GpsAdd ==
  /\ gpsCount + clientId < MaxEntries
  /\ GpsAddCall

\* The part of gps_remove(name) that changes the session: remove(obj) and
\* "del self.fakegpslist[name]".  The attributes of the dropped object are
\* reset, the object is garbage.
DropDevice(d) ==
  LET q == ListRemove(runqueue, Gps(d))
  IN /\ runqueue' = q
     /\ writers' = WritersAfterRemove(devKind[d])
     /\ index' = IndexAfterRemove(q)
     /\ fakegpslist' = fakegpslist \ {d}
     /\ devKind' = [devKind EXCEPT ![d] = "pty"]
     /\ devPred' = [devPred EXCEPT ![d] = "unset"]
     /\ exhausted' = [exhausted EXCEPT ![d] = 0]
     /\ fed' = [fed EXCEPT ![d] = 0]
     /\ UNCHANGED <<gpsCount, readers>>

\* gps_remove(name) called by the caller.
GpsRemove ==
  /\ CallerCanAct
  /\ \E d \in fakegpslist : DropDevice(d)
  /\ UNCHANGED <<runVars, daemonVars, threadVars, defaultPred, cliVars, now, simVars>>

\* client_add(commands): initialize() sends the commands at once without a
\* lock and queues them on the client with one.
ClientAddCall ==
  /\ CallerCanAct
  /\ \E commands \in BOOLEAN :
       LET c == clientId + 1
       IN /\ clientId' = c
          /\ runqueue' = Append(runqueue, Cli(c))
          /\ readers' = readers + 1
          /\ enqueued' = [enqueued EXCEPT ![c] = commands /\ threadlock]
          /\ waiting' = [waiting EXCEPT ![c] = FALSE]
  /\ UNCHANGED <<index, writers>>
  /\ UNCHANGED <<runVars, daemonVars, threadVars, defaultPred, devVars, now, simVars>>

ClientAdd ==
  /\ gpsCount + clientId < MaxEntries
  /\ ClientAddCall

\* client_remove(cid): removes the queued client with that id and returns
\* True; returns False, changing nothing, if there is none.
ClientRemove ==
  /\ CallerCanAct
  /\ \E c \in Clients :
       IF InQueue(Cli(c))
         THEN LET q == ListRemove(runqueue, Cli(c))
              IN /\ runqueue' = q
                 /\ readers' = readers - 1
                 /\ index' = IndexAfterRemove(q)
                 /\ enqueued' = [enqueued EXCEPT ![c] = FALSE]
                 /\ waiting' = [waiting EXCEPT ![c] = FALSE]
                 /\ UNCHANGED <<writers, clientId>>
         ELSE UNCHANGED <<queueVars, cliVars>>
  /\ UNCHANGED <<runVars, daemonVars, threadVars, defaultPred, devVars, now, simVars>>

\* The daemon makes responses available to a connected client.
DaemonResponds ==
  /\ \E c \in Clients :
       /\ InQueue(Cli(c))
       /\ ~waiting[c]
       /\ waiting' = [waiting EXCEPT ![c] = TRUE]
  /\ UNCHANGED <<clientId, enqueued>>
  /\ UNCHANGED <<runVars, daemonVars, threadVars, defaultPred, devVars, queueVars, now, simVars>>

\* time.time() moves on.  run() reads the clock only to mark a device
\* exhausted and to compare the clock with such a mark, so the clock is
\* counted from the first mark that is still held.
Tick ==
  /\ \E d \in Devices : exhausted[d] # 0
  /\ now < MaxTime
  /\ now' = now + 1
  /\ UNCHANGED <<runVars, daemonVars, threadVars, defaultPred, devVars, cliVars, queueVars, simVars>>

\* ------------------------------------------------------------- run()
cleanupVars == <<daemonRef, teardowns, killCalls, killRet, killCleanup>>
procVars == <<pid, procAlive, signals>>

\* An exception leaves the loop of run(): "finally: self.cleanup()".
Raise_NoFinally(err) ==
  /\ error' = err
  /\ pc' = "raised"
  /\ UNCHANGED cleanupVars

Raise(err) ==
  /\ error' = err
  /\ Cleanup("raised")

\* End of a turn: "if not self.writers and not had_output: break", with the
\* cleanup() of the finally clause after the break; otherwise the next
\* evaluation of "while self.daemon".
EndTurn(w, ho) ==
  /\ hadOutput' = ho
  /\ UNCHANGED error
  /\ IF w = 0 /\ ~ho
       THEN Cleanup("done")
       ELSE /\ pc' = "top"
            /\ UNCHANGED cleanupVars

\* run() is entered: "while self.daemon" is evaluated for the first time;
\* without a daemon handle the loop is skipped and cleanup() finds nothing.
RunCall ==
  /\ pc = "idle"
  /\ emptyAtEntry' = (runqueue = <<>>)
  /\ IF daemonRef
       THEN /\ pc' = "top"
            /\ UNCHANGED cleanupVars
       ELSE Cleanup("done")
  /\ UNCHANGED <<error, chosenIdx, hadOutput, retired, goResult, goIndex, since, drained, procVars>>
  /\ UNCHANGED <<threadVars, defaultPred, devVars, cliVars, queueVars, now, simVars>>

\* choose(), the part under the lock: "chosen = self.index; self.index += 1;
\* self.index %= len(self.runqueue)".
IndexAfterChoose(q) == (index + 1) % Len(q)

\* Start of a turn with a non-empty run-queue: had_output = False, then the
\* locked part of choose().
\* "for device in self.runqueue: if isinstance(device, FakeLogGPS):
\* device.read()": of the queued devices only a FakeUDP is a FakeLogGPS.
ReadCalled == {d \in Devices : InQueue(Gps(d)) /\ devKind[d] = "udp"}

\* The turns taken since each entry was last returned by choose(): the entry
\* at the cursor starts again with itself, every entry that has had a turn
\* takes it in.  Kept in synchronous mode, where nothing but run() touches
\* the run-queue between the turns.
SinceAfterChoose ==
  IF threadlock \/ ~InRange(runqueue, index) THEN since
  ELSE LET x == runqueue[PyPos(runqueue, index)]
       IN [e \in Entries |->
             IF e = x THEN {x}
             ELSE IF since[e] = {} THEN {}
             ELSE since[e] \cup {x}]

TurnChoose ==
  /\ pc = "top"
  /\ Len(runqueue) > 0
  /\ hadOutput' = FALSE
  /\ goResult' = "none"
  /\ goIndex' = goIndex
  /\ since' = SinceAfterChoose
  /\ drained' = ReadCalled
  /\ chosenIdx' = index
  /\ index' = IndexAfterChoose(runqueue)
  /\ pc' = "chosen"
  /\ UNCHANGED <<error, emptyAtEntry, retired, runqueue, writers, readers>>
  /\ UNCHANGED <<daemonVars, threadVars, defaultPred, devVars, cliVars, now, simVars>>

\* Start of a turn with an empty run-queue: the modulo by len(self.runqueue)
\* raises ZeroDivisionError after the increment, with the lock (if any) still
\* acquired.
ChooseEmpty ==
  /\ pc = "top"
  /\ Len(runqueue) = 0
  /\ hadOutput' = FALSE
  /\ goResult' = "none"
  /\ goIndex' = goIndex
  /\ since' = since
  /\ drained' = ReadCalled
  /\ index' = index + 1
  /\ lockHeld' = threadlock
  /\ Raise("ZeroDivisionError")
  /\ UNCHANGED <<chosenIdx, emptyAtEntry, retired, runqueue, writers, readers, procVars>>
  /\ UNCHANGED <<threadlock, worker, defaultPred, devVars, cliVars, now, simVars>>

\* choose(), after the lock is released: "return self.runqueue[chosen]".
ChosenObj == runqueue[PyPos(runqueue, chosenIdx)]

\* The read finds no such position: IndexError.
ReadFails ==
  /\ pc = "chosen"
  /\ ~InRange(runqueue, chosenIdx)
  /\ Raise("IndexError")
  /\ UNCHANGED <<chosenIdx, hadOutput, emptyAtEntry, retired, goResult, goIndex, since, drained, procVars>>
  /\ UNCHANGED <<threadVars, defaultPred, devVars, cliVars, queueVars, now, simVars>>

IsChosen(e) ==
  /\ pc = "chosen"
  /\ InRange(runqueue, chosenIdx)
  /\ ChosenObj = e

\* "chosen.exhausted and (time.time() - chosen.exhausted > CLOSE_DELAY)"
RetireEligible_NoDelay(d) == exhausted[d] # 0
RetireEligible(d) == exhausted[d] # 0 /\ now - exhausted[d] > CLOSE_DELAY

\* A FakePTY past its grace interval: gps_remove(chosen.byname).
TurnRetire ==
  /\ \E d \in Devices :
       /\ IsChosen(Gps(d))
       /\ devKind[d] = "pty"
       /\ RetireEligible(d)
       /\ DropDevice(d)
       /\ retired' = retired \cup {d}
       /\ EndTurn(WritersAfterRemove(devKind[d]), FALSE)
  /\ UNCHANGED <<chosenIdx, emptyAtEntry, goResult, goIndex, since, drained, procVars>>
  /\ UNCHANGED <<threadVars, defaultPred, cliVars, now, simVars>>

\* "chosen.go_predicate(chosen.index, chosen)" on a FakePTY that has no
\* go_predicate attribute: AttributeError.
TurnNoPredicate ==
  /\ \E d \in Devices :
       /\ IsChosen(Gps(d))
       /\ devKind[d] = "pty"
       /\ ~RetireEligible(d)
       /\ devPred[d] # "user"
       /\ Raise("AttributeError")
  /\ UNCHANGED <<chosenIdx, hadOutput, emptyAtEntry, retired, goResult, goIndex, since, drained, procVars>>
  /\ UNCHANGED <<threadVars, defaultPred, devVars, cliVars, queueVars, now, simVars>>

\* chosen.index, the first argument of chosen.go_predicate(chosen.index, chosen):
\* FakePTY.__init__ sets it to 0 and FakePTY.feed() does not count it up (the
\* index that feed() of the wrapped FakeLogGPS counts belongs to that object).
DeviceIndex(d) == 0

\* "if chosen.exhausted == 0: chosen.exhausted = time.time()"
ExhaustedAfterFalse_Restamp(d) == now
ExhaustedAfterFalse(d) == IF exhausted[d] = 0 THEN now ELSE exhausted[d]

\* The branch "elif not chosen.go_predicate(...)" holds the stamp only:
\* feed() is in the else branch, so a false predicate never feeds.
FedAfterFalse_FeedsMarked(d) == IF exhausted[d] = 0 THEN fed[d] ELSE fed[d] + 1
FedAfterFalse(d) == fed[d]

\* The caller's predicate returns false: the device is marked exhausted if it
\* is not yet, and is not fed.
TurnPredicateFalse ==
  /\ \E d \in Devices :
       /\ IsChosen(Gps(d))
       /\ devKind[d] = "pty"
       /\ ~RetireEligible(d)
       /\ devPred[d] = "user"
       /\ exhausted' = [exhausted EXCEPT ![d] = ExhaustedAfterFalse(d)]
       /\ goIndex' = DeviceIndex(d)
       /\ fed' = [fed EXCEPT ![d] = FedAfterFalse(d)]
  /\ goResult' = "false"
  /\ EndTurn(writers, FALSE)
  /\ UNCHANGED <<chosenIdx, emptyAtEntry, retired, since, drained, procVars>>
  /\ UNCHANGED <<gpsCount, fakegpslist, devKind, devPred>>
  /\ UNCHANGED <<threadVars, defaultPred, cliVars, queueVars, now, simVars>>

\* The caller's predicate returns true: chosen.feed().
TurnFeed ==
  /\ \E d \in Devices :
       /\ IsChosen(Gps(d))
       /\ devKind[d] = "pty"
       /\ ~RetireEligible(d)
       /\ devPred[d] = "user"
       /\ fed[d] < MaxFeeds
       /\ fed' = [fed EXCEPT ![d] = fed[d] + 1]
       /\ goIndex' = DeviceIndex(d)
  /\ goResult' = "true"
  /\ EndTurn(writers, FALSE)
  /\ UNCHANGED <<chosenIdx, emptyAtEntry, retired, since, drained, procVars>>
  /\ UNCHANGED <<gpsCount, fakegpslist, devKind, devPred, exhausted>>
  /\ UNCHANGED <<threadVars, defaultPred, cliVars, queueVars, now, simVars>>

\* The caller's predicate, or the write of feed(), raises.
TurnDeviceFails ==
  /\ \E d \in Devices :
       /\ IsChosen(Gps(d))
       /\ devKind[d] = "pty"
       /\ ~RetireEligible(d)
       /\ devPred[d] = "user"
  /\ \E err \in {"PredicateError", "OSError"} : Raise(err)
  /\ UNCHANGED <<chosenIdx, hadOutput, emptyAtEntry, retired, goResult, goIndex, since, drained, procVars>>
  /\ UNCHANGED <<threadVars, defaultPred, devVars, cliVars, queueVars, now, simVars>>

\* A FakeUDP is neither a FakePTY nor a gps.gps: "raise TestSessionError".
TurnUnknown ==
  /\ \E d \in Devices :
       /\ IsChosen(Gps(d))
       /\ devKind[d] = "udp"
  /\ Raise("TestSessionError")
  /\ UNCHANGED <<chosenIdx, hadOutput, emptyAtEntry, retired, goResult, goIndex, since, drained, procVars>>
  /\ UNCHANGED <<threadVars, defaultPred, devVars, cliVars, queueVars, now, simVars>>

\* A client: send the queued commands once, then poll while data waits.
TurnClient ==
  /\ \E c \in Clients :
       /\ IsChosen(Cli(c))
       /\ enqueued' = [enqueued EXCEPT ![c] = FALSE]
       /\ waiting' = [waiting EXCEPT ![c] = FALSE]
       /\ EndTurn(writers, waiting[c])
  /\ UNCHANGED <<chosenIdx, emptyAtEntry, retired, goResult, goIndex, since, drained, procVars, clientId>>
  /\ UNCHANGED <<threadVars, defaultPred, devVars, queueVars, now, simVars>>

\* send() or poll() of the client raises.
TurnClientFails ==
  /\ \E c \in Clients : IsChosen(Cli(c))
  /\ Raise("socket.error")
  /\ UNCHANGED <<chosenIdx, hadOutput, emptyAtEntry, retired, goResult, goIndex, since, drained, procVars>>
  /\ UNCHANGED <<threadVars, defaultPred, devVars, cliVars, queueVars, now, simVars>>

Next ==
  \/ Spawn
  \/ ProcExit
  \/ KillSignal
  \/ KillFinish
  \/ UserCleanup
  \/ SetPredicate
  \/ Start
  \/ GpsAdd
  \/ GpsRemove
  \/ ClientAdd
  \/ ClientRemove
  \/ DaemonResponds
  \/ Tick
  \/ RunCall
  \/ TurnChoose
  \/ ChooseEmpty
  \/ ReadFails
  \/ TurnRetire
  \/ TurnNoPredicate
  \/ TurnPredicateFalse
  \/ TurnFeed
  \/ TurnDeviceFails
  \/ TurnUnknown
  \/ TurnClient
  \/ TurnClientFails

Spec == Init /\ [][Next]_vars

\* The DaemonInstance driven directly by its owner: spawn, kill() any number
\* of times, cleanup().
DaemonNext ==
  \/ Spawn
  \/ ProcExit
  \/ DaemonKill
  \/ KillSignal
  \/ KillFinish
  \/ UserCleanup

DaemonSpec == Init /\ [][DaemonNext]_vars

\* Synchronous mode with no daemon spawned: the caller fills the run-queue,
\* with up to MaxEntries devices and up to MaxEntries clients but no more
\* than MaxQueue entries, and calls run().
SyncGpsAdd ==
  /\ gpsCount < MaxEntries
  /\ gpsCount + clientId < MaxQueue
  /\ GpsAddCall

SyncClientAdd ==
  /\ clientId < MaxEntries
  /\ gpsCount + clientId < MaxQueue
  /\ ClientAddCall

SyncNext ==
  \/ SetPredicate
  \/ SyncGpsAdd
  \/ GpsRemove
  \/ SyncClientAdd
  \/ ClientRemove
  \/ DaemonResponds
  \/ Tick
  \/ RunCall
  \/ TurnChoose
  \/ ChooseEmpty
  \/ TurnRetire
  \/ TurnNoPredicate
  \/ TurnPredicateFalse
  \/ TurnFeed
  \/ TurnDeviceFails
  \/ TurnUnknown
  \/ TurnClient
  \/ TurnClientFails

SyncSpec == Init /\ [][SyncNext]_vars

TypeOK ==
  /\ pc \in {"idle", "top", "chosen", "killing", "done", "raised"}
  /\ goResult \in {"none", "true", "false"}
  /\ goIndex \in Nat
  /\ since \in [Entries -> SUBSET Entries]
  /\ drained \subseteq Devices
  /\ index \in -1..(MaxEntries + 1)
  /\ writers \in 0..MaxEntries
  /\ readers \in 0..MaxEntries

\* ------------------------------------------------------------ properties
DevicesIn(q) == {d \in Devices : \E i \in 1..Len(q) : q[i] = Gps(d)}

\* A step of the thread in run() that ends a turn.
TurnEnds == pc = "chosen" /\ pc' # "chosen"

\* C1: in synchronous mode, a turn that ends normally with every device added
\* by gps_add retired from the run-queue and without reader output does not go
\* back to the top of the loop: run() leaves the loop and returns.
C1_RunTerminates ==
  [][(~threadlock /\ TurnEnds /\ error' = "none"
        /\ retired' = 1..gpsCount' /\ DevicesIn(runqueue') = {} /\ ~hadOutput')
      => pc' # "top"]_vars

\* C2: once run() has been entered with an empty run-queue (synchronous mode),
\* the only thing it does is return: no step raises, none invokes kill() on
\* the daemon controller, and control goes nowhere but to the normal return.
C2_EmptyRunReturns ==
  [][(emptyAtEntry /\ ~threadlock /\ pc' # pc)
      => (pc' = "done" /\ error' = "none" /\ killCalls' = killCalls)]_vars

\* C3: whenever run() has been left, normally or by an exception, the daemon
\* teardown has been executed exactly once (one kill() invocation) and the
\* session holds no daemon handle.
C3_TeardownOnExit ==
  pc \in {"done", "raised"} => (teardowns = 1 /\ killCalls = 1 /\ ~daemonRef)

\* C3 witness: run() was left by the unknown-entry failure and the teardown
\* has signalled a spawned daemon to its end.
C3_Witness ==
  /\ pc = "raised"
  /\ error = "TestSessionError"
  /\ teardowns = 1
  /\ signals > 0
  /\ pid = NoPid

\* C4: kill() is idempotent: a kill() that has ended the process returns with
\* the pid cleared, and a kill() invoked without a stored pid sends no signal,
\* enters no signalling loop, changes nothing of the controller and does not
\* fail.
C4_KillIdempotent ==
  [][/\ (pc = "killing" /\ pc' # "killing") => pid' = NoPid
     /\ (killCalls' # killCalls /\ pid = NoPid)
          => (pc' = pc /\ error' = error /\ UNCHANGED <<pid, procAlive, signals>>)]_vars

\* C4 witness: kill() was invoked at least twice, a process was signalled to
\* its end, and the pid is cleared.
C4_Witness ==
  /\ pc = "idle"
  /\ killCalls >= 2
  /\ signals >= 1
  /\ ~procAlive
  /\ pid = NoPid

\* C5: the turn that marks a device exhausted keeps it in the run-queue; a
\* turn removes a device only if that device is the chosen one, was marked
\* exhausted on an earlier turn, and more than CLOSE_DELAY has passed since.
C5_RetireAfterGrace ==
  [][\A d \in Devices :
       /\ (exhausted[d] = 0 /\ exhausted'[d] # 0) => d \in DevicesIn(runqueue')
       /\ (TurnEnds /\ d \in DevicesIn(runqueue) /\ d \notin DevicesIn(runqueue'))
            => (/\ IsChosen(Gps(d))
                /\ exhausted[d] # 0
                /\ now - exhausted[d] > CLOSE_DELAY)]_vars

\* C5 witness: in synchronous mode the scheduler has retired a device.
C5_Witness ==
  /\ ~threadlock
  /\ retired # {}
  /\ fakegpslist = {}

\* C6: a turn that chooses a device added without a predicate, in a session
\* without a default predicate, feeds one record, raises nothing and leaves
\* the device not exhausted.
C6_DefaultPredicateFeeds ==
  [][\A d \in Devices :
       (IsChosen(Gps(d)) /\ devPred[d] # "user" /\ TurnEnds)
         => (fed'[d] = fed[d] + 1 /\ error' = "none" /\ exhausted'[d] = 0)]_vars

\* C7: once start() has been called, the worker thread it made is running
\* run().
C7_StartRunsWorker == threadlock => worker = "started"

\* C8: in threaded mode, the position choose() reads is a position of the
\* run-queue at the moment of the read.
C8_ChooseInRange ==
  [][(threadlock /\ TurnEnds) => InRange(runqueue, chosenIdx)]_vars

\* ------------------------------------------- the simulator on its own
SimTimes == {1330759882, 1330759883, 86399, 3599}
SimPositions == {<<34624338, 7017128>>, <<-3599996, -60000004>>, <<53999990, 107999999>>, <<0, 108000000>>}
SimCourses == {0, 180}
SimSpeeds == {0, 100, 3000}

\* Plans as gps_add and the tests build them: a start position and addLeg
\* calls.
PlanStart == NewPlan(34883284, 7099849)
PlanTwoLegs == AddLeg(AddLeg(PlanStart, 2, 180, 500), 1, 0, 1000)
PlanForever == AddLeg(PlanStart, -1, 0, 1000)
SimPlans == {NoPlan, PlanStart, PlanTwoLegs, PlanForever}

\* The simulator after its constructor has returned; the constructor raises
\* for a plan of total length 0, and then there is no simulator.
SimInit ==
  /\ SessionInit
  /\ \E t \in SimTimes, pos \in SimPositions, c \in SimCourses, v \in SimSpeeds, p \in SimPlans :
       /\ ~(p.bound /\ CourseFails(p))
       /\ plan = p
       /\ sim = NewSimulator(t, pos[1], pos[2], c, v, p)
       /\ origin = pos
  /\ sentence = <<>>
  /\ feedCalls = 0
  /\ emitted = 0
  /\ stepCalls = 0
  /\ courses = {}
  /\ LoadInit

sessionVars == <<runVars, daemonVars, threadVars, defaultPred, devVars, cliVars, queueVars, now>>

\* feed(): nextPos(), then the sentence of the new state with its checksum.
SimFeed ==
  /\ feedCalls < MaxSimCalls
  /\ sim' = NextPos(sim, plan)
  /\ sentence' = Wrap(SentenceBody(sim'))
  /\ feedCalls' = feedCalls + 1
  /\ emitted' = emitted + 1
  /\ UNCHANGED <<plan, stepCalls, sessionVars, libVars>>

\* nextPos() called by the owner of the simulator, as the tests do.
SimNextPos ==
  /\ stepCalls < MaxSimSteps
  /\ sim' = NextPos(sim, plan)
  /\ stepCalls' = stepCalls + 1
  /\ UNCHANGED <<plan, sentence, feedCalls, emitted, sessionVars, libVars>>

SimNext ==
  \/ SimFeed
  \/ SimNextPos

SimSpec == SimInit /\ [][SimNext]_vars

CountOf(str, b) == Cardinality({i \in 1..Len(str) : str[i] = b})

\* C9: every call of feed() moves the simulated clock on by exactly one second
\* and returns exactly one sentence (one '$', one '*', CR LF at the end); on a
\* simulator driven by feed() alone the clock is the start clock plus the
\* number of calls, and as many sentences were returned.
C9_FeedOneSecondOneSentence ==
  [][/\ feedCalls' = feedCalls + 1
          => /\ sim'.time = sim.time + 1
             /\ emitted' = emitted + 1
             /\ CountOf(sentence', 36) = 1
             /\ CountOf(sentence', 42) = 1
             /\ CountOf(sentence', 10) = 1
             /\ sentence'[Len(sentence')] = 10
             /\ sentence'[Len(sentence') - 1] = 13
     /\ stepCalls' = 0
          => /\ sim'.time = sim'.start + feedCalls'
             /\ emitted' = feedCalls']_vars

\* C9 witness: a simulator bound to a plan has been fed twice, and nothing
\* else has moved it.
C9_Witness ==
  /\ plan.bound
  /\ feedCalls >= 2
  /\ stepCalls = 0
  /\ emitted = feedCalls
  /\ sim.time = sim.start + feedCalls

\* The XOR of the bytes of a string, bit by bit: bit k of the result is the
\* parity of the number of bytes that have bit k set.
Pow2(k) == IF k = 0 THEN 1 ELSE IF k = 1 THEN 2 ELSE IF k = 2 THEN 4 ELSE IF k = 3 THEN 8 ELSE IF k = 4 THEN 16 ELSE IF k = 5 THEN 32 ELSE IF k = 6 THEN 64 ELSE 128
BitParity(str, k) == Cardinality({i \in 1..Len(str) : (str[i] \div Pow2(k)) % 2 = 1}) % 2
ParityXor(str) ==
  BitParity(str, 0) + 2 * BitParity(str, 1) + 4 * BitParity(str, 2) + 8 * BitParity(str, 3)
    + 16 * BitParity(str, 4) + 32 * BitParity(str, 5) + 64 * BitParity(str, 6) + 128 * BitParity(str, 7)

StarPos(str) == CHOOSE i \in 1..Len(str) : str[i] = 42 /\ \A j \in 1..(i-1) : str[j] # 42
IsUpperHex(c) == c \in 48..57 \/ c \in 65..70
HexVal(c) == IF c <= 57 THEN c - 48 ELSE c - 55

\* C10: in every sentence returned by feed(), '*' is followed by exactly two
\* uppercase hex digits and CR LF, the digits read as a number are the XOR of
\* the bytes between '$' and '*', and the XOR of those bytes with that number
\* is zero.
C10_ChecksumIsXor ==
  sentence # <<>> =>
    LET st == StarPos(sentence)
        body == SubSeq(sentence, 2, st - 1)
        h1 == sentence[st + 1]
        h2 == sentence[st + 2]
        printed == 16 * HexVal(h1) + HexVal(h2)
    IN /\ sentence[1] = 36
       /\ Len(sentence) = st + 4
       /\ IsUpperHex(h1)
       /\ IsUpperHex(h2)
       /\ printed = ParityXor(body)
       /\ ParityXor(Append(body, printed)) = 0

\* "$GPRMC,073123.000,A,5742.434,N,1141.713,E,1.00,0.00,280511,,,S*41\r\n",
\* the sentence gpssimtest.py expects of the first feed() of its simulator.
FixtureSentence ==
  <<36, 71, 80, 82, 77, 67, 44, 48, 55, 51, 49, 50, 51, 46, 48, 48, 48, 44,
     65, 44, 53, 55, 52, 50, 46, 52, 51, 52, 44, 78, 44, 49, 49, 52, 49, 46,
     55, 49, 51, 44, 69, 44, 49, 46, 48, 48, 44, 48, 46, 48, 48, 44, 50, 56,
     48, 53, 49, 49, 44, 44, 44, 83, 42, 52, 49, 13, 10>>

\* C10 witness: feed() has returned the sentence of the test fixture, with
\* its checksum 41.
C10_Witness ==
  /\ feedCalls = 1
  /\ sentence = FixtureSentence

\* ------------------------------------------------------------- ShipPlan
\* A ShipPlan driven directly by its owner, as TestShipPLans does: addLeg
\* calls and courseAtTime(when) calls without a simulator.
MaxLegs == 3
MaxElapsed == 3

\* Leg arguments: a sentinel, an empty leg and two finite lengths, each with
\* two (course, speed) pairs.
LegLengths == {-1, 0, 1, 2}
LegCourses == {<<0, 1000>>, <<180, 500>>}

\* Elapsed times asked for: the first seconds and one far beyond any leg.
Elapsed == (0..MaxElapsed) \cup {86400 + MaxElapsed}

\* What one call courseAtTime(when) does: the ZeroDivisionError of
\* "when % self._totalLength", or the (course, speed) returned.
CourseResult(p, when) ==
  IF CourseFails(p)
    THEN [when |-> when, error |-> "ZeroDivisionError", course |-> 0, speed |-> 0]
    ELSE [when |-> when, error |-> "none",
          course |-> CourseAtTime(p, when).course, speed |-> CourseAtTime(p, when).speed]

PlanInit ==
  /\ SessionInit
  /\ sim = FixtureSim
  /\ plan = NewPlan(0, 0)
  /\ sentence = <<>>
  /\ feedCalls = 0
  /\ emitted = 0
  /\ stepCalls = 0
  /\ LibInit

\* plan.addLeg(length, course, speed); the results kept are those of the
\* plan as it is, so they start afresh.
PlanAddLeg ==
  /\ Len(plan.legs) < MaxLegs
  /\ \E l \in LegLengths, cs \in LegCourses : plan' = AddLeg(plan, l, cs[1], cs[2])
  /\ courses' = {}
  /\ UNCHANGED <<sim, sentence, feedCalls, emitted, stepCalls, origin, loadVars, sessionVars>>

\* plan.courseAtTime(when)
PlanCourseAtTime ==
  /\ \E when \in Elapsed : courses' = courses \cup {CourseResult(plan, when)}
  /\ UNCHANGED <<sim, plan, sentence, feedCalls, emitted, stepCalls, origin, loadVars, sessionVars>>

PlanNext ==
  \/ PlanAddLeg
  \/ PlanCourseAtTime

PlanSpec == PlanInit /\ [][PlanNext]_vars

\* Sum of the leg lengths that are not negative, and the same sum over the
\* first k legs.
RECURSIVE FiniteLength(_, _)
FiniteLength(legs, k) ==
  IF k = 0 THEN 0
  ELSE FiniteLength(legs, k - 1) + (IF legs[k].length >= 0 THEN legs[k].length ELSE 0)

HasFiniteLeg(p) == \E i \in 1..Len(p.legs) : p.legs[i].length >= 0
AllFinite(p) == \A i \in 1..Len(p.legs) : p.legs[i].length >= 0

\* C11: for a plan with at least one finite leg, sentinel legs or not, and
\* P the sum of its finite leg lengths, any two courseAtTime calls whose
\* elapsed times differ by P have the same outcome: the same (course, speed).
C11_CoursePeriodic ==
  (HasFiniteLeg(plan) /\ FiniteLength(plan.legs, Len(plan.legs)) > 0) =>
    \A a \in courses, b \in courses :
      b.when = a.when + FiniteLength(plan.legs, Len(plan.legs))
        => (a.error = b.error /\ a.course = b.course /\ a.speed = b.speed)

\* C12: on a plan whose only leg is a sentinel, every courseAtTime call, for
\* elapsed 0 as for any other, returns that leg's (course, speed) and none
\* raises.
C12_SentinelForever ==
  (Len(plan.legs) = 1 /\ plan.legs[1].length < 0) =>
    \A r \in courses :
      r.error = "none" /\ r.course = plan.legs[1].course /\ r.speed = plan.legs[1].speed

\* C12 witness: a sentinel-only plan has been asked for elapsed 0 and for an
\* elapsed far beyond the first seconds.
C12_Witness ==
  /\ Len(plan.legs) = 1 /\ plan.legs[1].length < 0
  /\ \E r \in courses : r.when = 0
  /\ \E r \in courses : r.when > MaxElapsed

\* C13: on a plan of finite legs with a positive total, courseAtTime(elapsed)
\* returns the (course, speed) of leg k, where elapsed mod total lies from
\* the sum of the first k-1 lengths up to, not including, the sum of the
\* first k lengths.
C13_LegByCumulativeEnd ==
  (AllFinite(plan) /\ FiniteLength(plan.legs, Len(plan.legs)) > 0) =>
    \A r \in courses :
      /\ r.error = "none"
      /\ \E k \in 1..Len(plan.legs) :
           /\ FiniteLength(plan.legs, k - 1) <= r.when % FiniteLength(plan.legs, Len(plan.legs))
           /\ r.when % FiniteLength(plan.legs, Len(plan.legs)) < FiniteLength(plan.legs, k)
           /\ r.course = plan.legs[k].course
           /\ r.speed = plan.legs[k].speed

\* C13 witness: a plan of two finite legs with different courses was asked
\* for an elapsed time beyond its total that falls in the second leg.
C13_Witness ==
  /\ Len(plan.legs) = 2 /\ AllFinite(plan)
  /\ plan.legs[1].length > 0 /\ plan.legs[2].length > 0
  /\ plan.legs[1].course # plan.legs[2].course
  /\ \E r \in courses :
       /\ r.when >= plan.total
       /\ r.when % plan.total >= plan.legs[1].length
       /\ r.course = plan.legs[2].course

\* ----------------------------------------------------- dead reckoning
\* The simulator as _setTime leaves it at the start of the step that is
\* being taken: the heading and speed the step uses and the position it
\* starts from.
StepStart == SetTime(sim, plan, TimeAfterStep(sim.time))

\* The simulator of testMove30KnotsNorth, and the number of steps it has taken.
IsMove30North ==
  /\ ~plan.bound
  /\ sim.start = 1330759883
  /\ origin = <<34624338, 7017128>>
  /\ sim.heading = 0
  /\ sim.speed = 3000
StepsTaken == sim.time - sim.start

Txt5742467 == <<53, 55, 52, 50, 46, 52, 54, 55>>
Txt5742475 == <<53, 55, 52, 50, 46, 52, 55, 53>>
Txt1141713 == <<49, 49, 52, 49, 46, 55, 49, 51>>

\* A step at this speed from this latitude stays south of the north pole: one
\* second at speed/100 knots is speed/360000 nautical miles, each less than a
\* minute of arc (10000 position units).
SouthOfPole(lat, speed) == lat + (speed \div 36) + 1 <= 90 * UnitsPerDegree

MaxRecords == 4

\* Words in which the tests '"Serial:" in packet', '"UDP" in packet' and
\* '"%" in packet' find their text.
SerialWords == {"Serial:"}
UDPWords == {"UDP"}
PercentWords == {"%Delay:", "8N1%"}
HasWord(packet, words) == \E i \in 1..Len(packet) : packet[i] \in words

\* int(baud) succeeds on these words.
BaudOf == ("4800" :> 4800)
\* params[0] in ('7', '8'), params[1] in ('N', 'O', 'E') and params[2] in
\* ('1', '2') hold of these words, with the values taken from them; what
\* follows the third character is not looked at.
ParamsOf == ("8N1" :> <<8, "N", 1>>) @@ ("7E2" :> <<7, "E", 2>>) @@ ("8N1%" :> <<8, "N", 1>>)

\* The comment packets a capture is made of here.
CommentPackets ==
  { <<"#", "text">>,
    <<"#", "%Delay:", "2">>,
    <<"#", "UDP">>,
    <<"#", "UDP", "%Delay:", "2">>,
    <<"#", "Serial:", "4800", "7E2">>,
    <<"#", "Serial:", "4800", "8N1%">>,
    <<"#", "Serial:", "4800", "9N1">> }

\* What getter.get() can return: a comment; a sentence or a binary packet;
\* bytes read that complete no packet (a length and an empty packet); end of
\* file (length 0) and a read error (length -1), with the packet type left
\* from before.
Yields ==
  { [len |-> Len(c), ptype |-> "COMMENT_PACKET", packet |-> c] : c \in CommentPackets }
  \cup { [len |-> 1, ptype |-> "NMEA_PACKET", packet |-> <<"$GPRMC">>],
         [len |-> 1, ptype |-> "GARMIN_PACKET", packet |-> <<"bin">>],
         [len |-> 1, ptype |-> "NMEA_PACKET", packet |-> <<>>],
         [len |-> 0, ptype |-> "NMEA_PACKET", packet |-> <<>>],
         [len |-> 0, ptype |-> "COMMENT_PACKET", packet |-> <<>>],
         [len |-> -1, ptype |-> "BAD_PACKET", packet |-> <<>>] }

\* The serial-parameter comment: "packet[1:].strip()" split in exactly three
\* words, a baud rate and valid parameters; anything else is the ValueError
\* or IndexError that becomes the TestLoadError.
SerialFails(packet) ==
  \/ Len(packet) # 4
  \/ packet[3] \notin DOMAIN BaudOf
  \/ packet[4] \notin DOMAIN ParamsOf
SerialOf(packet) == <<BaudOf[packet[3]]>> \o ParamsOf[packet[4]]

\* The branch the comment takes in the chain
\* 'if "Serial:" in packet', 'elif "UDP" in packet', 'elif "%" in packet'.
CommentKind_PercentFirst(packet) ==
  IF HasWord(packet, PercentWords) THEN "percent"
  ELSE IF HasWord(packet, SerialWords) THEN "serial"
  ELSE IF HasWord(packet, UDPWords) THEN "udp"
  ELSE "plain"
CommentKind(packet) ==
  IF HasWord(packet, SerialWords) THEN "serial"
  ELSE IF HasWord(packet, UDPWords) THEN "udp"
  ELSE IF HasWord(packet, PercentWords) THEN "percent"
  ELSE "plain"

\* "if not packet: raise TestLoadError(...)"
ZeroLengthFails_Never(packet) == FALSE
ZeroLengthFails(packet) == packet = <<>>

\* getter.get() returns a length <= 0: "break", and the constructor returns.
LoadEnd ==
  /\ loadState = "reading"
  /\ Len(capture) < MaxRecords
  /\ \E y \in Yields :
       /\ y.len <= 0
       /\ capture' = Append(capture, y)
  /\ loadState' = "loaded"
  /\ UNCHANGED <<sentences, sourcetype, serial, typeLatch>>
  /\ UNCHANGED <<courses, origin, navVars, sessionVars>>

\* getter.get() returns a comment packet.
LoadComment ==
  /\ loadState = "reading"
  /\ Len(capture) < MaxRecords
  /\ \E y \in Yields :
       /\ y.len > 0
       /\ y.ptype = "COMMENT_PACKET"
       /\ capture' = Append(capture, y)
       /\ CASE CommentKind(y.packet) = "serial" ->
                 IF SerialFails(y.packet)
                   THEN /\ loadState' = "bad serial-parameter spec"
                        /\ UNCHANGED <<sentences, sourcetype, serial>>
                   ELSE /\ serial' = SerialOf(y.packet)
                        /\ UNCHANGED <<loadState, sentences, sourcetype>>
            [] CommentKind(y.packet) = "udp" ->
                 /\ sourcetype' = "UDP"
                 /\ UNCHANGED <<loadState, sentences, serial>>
            [] CommentKind(y.packet) = "percent" ->
                 /\ sentences' = Append(sentences, y.packet)
                 /\ UNCHANGED <<loadState, sourcetype, serial>>
            [] OTHER -> UNCHANGED <<loadState, sentences, sourcetype, serial>>
  /\ UNCHANGED typeLatch
  /\ UNCHANGED <<courses, origin, navVars, sessionVars>>

\* getter.get() returns a packet of any other type.
LoadPacket ==
  /\ loadState = "reading"
  /\ Len(capture) < MaxRecords
  /\ \E y \in Yields :
       /\ y.len > 0
       /\ y.ptype # "COMMENT_PACKET"
       /\ capture' = Append(capture, y)
       /\ typeLatch' = IF typeLatch = "" THEN y.ptype ELSE typeLatch
       /\ IF ZeroLengthFails(y.packet)
            THEN /\ loadState' = "zero-length packet"
                 /\ UNCHANGED sentences
            ELSE /\ sentences' = Append(sentences, y.packet)
                 /\ UNCHANGED loadState
  /\ UNCHANGED <<sourcetype, serial>>
  /\ UNCHANGED <<courses, origin, navVars, sessionVars>>

LoadNext ==
  \/ LoadEnd
  \/ LoadComment
  \/ LoadPacket

LoadSpec == Init /\ [][LoadNext]_vars

\* The packets of the returns that satisfy Test, in the order of the capture.
PacketsOf(returns, Test(_)) ==
  [i \in 1..Len(SelectSeq(returns, Test)) |-> SelectSeq(returns, Test)[i].packet]

IsComment(y) == y.ptype = "COMMENT_PACKET"

\* C15: once digestion is over, a capture in which the sniffer returned a
\* record that is not a comment and has no content, at whatever position,
\* has ended in the zero-length TestLoadError and not in a digested load.
C15_ZeroLengthFails ==
  (loadState # "reading" /\ \E i \in 1..Len(capture) : ~IsComment(capture[i]) /\ capture[i].packet = <<>>)
    => loadState = "zero-length packet"

\* C15 as amended: a return with a positive length whose packet is not a
\* comment and is empty ends digestion in the zero-length TestLoadError, at
\* whatever position; a return with a length of 0 or less, whatever its type,
\* ends digestion without error.
C15_PositiveLengthEmptyFails ==
  /\ (\E i \in 1..Len(capture) :
        capture[i].len > 0 /\ ~IsComment(capture[i]) /\ capture[i].packet = <<>>)
       => loadState = "zero-length packet"
  /\ (\E i \in 1..Len(capture) : capture[i].len <= 0) => loadState = "loaded"

\* C15 witness: the empty packet came after a sentence had been digested.
C15_Witness ==
  /\ Len(capture) >= 2
  /\ sentences # <<>>
  /\ capture[Len(capture)].len > 0
  /\ ~IsComment(capture[Len(capture)])
  /\ capture[Len(capture)].packet = <<>>
  /\ loadState = "zero-length packet"

IsRecord(y) == y.len > 0
KeptAsClaimed(y) == IsRecord(y) /\ (~IsComment(y) \/ HasWord(y.packet, PercentWords))
KeptByChain(y) ==
  /\ IsRecord(y)
  /\ \/ ~IsComment(y)
     \/ /\ HasWord(y.packet, PercentWords)
        /\ ~HasWord(y.packet, SerialWords)
        /\ ~HasWord(y.packet, UDPWords)

ClientsIn(q) == {c \in Clients : \E i \in 1..Len(q) : q[i] = Cli(c)}

\* C17: whatever gps_add, gps_remove, retirements, client_add and
\* client_remove have been done, writers is the number of devices in the
\* run-queue and readers the number of clients in it.
C17_CountersMatchQueue ==
  /\ writers = Cardinality(DevicesIn(runqueue))
  /\ readers = Cardinality(ClientsIn(runqueue))

\* C18: on a turn whose predicate call returns false the chosen device is not
\* fed and, if it carries no exhausted stamp yet, is stamped with the time of
\* the turn; a stamp, once set, stays as it is for as long as the device is
\* in the run-queue.
C18_StampedOnce ==
  [][\A d \in Devices :
       /\ (TurnEnds /\ IsChosen(Gps(d)) /\ goResult' = "false")
            => /\ fed' = fed
               /\ exhausted'[d] # 0
               /\ exhausted[d] = 0 => exhausted'[d] = now
       /\ (exhausted[d] # 0 /\ d \in DevicesIn(runqueue'))
            => exhausted'[d] = exhausted[d]]_vars

\* C18 witness: the first of two devices was stamped on its first turn, the
\* second was fed, and on its next turn, a second later, the first was
\* refused by its predicate again.
C18_Witness ==
  /\ ~threadlock
  /\ pc = "top"
  /\ runqueue = <<Gps(1), Gps(2)>>
  /\ goResult = "false"
  /\ fed[1] = 0
  /\ fed[2] = 1
  /\ exhausted[1] # 0
  /\ exhausted[1] < now
  /\ exhausted[2] = 0

\* C19: a turn starts by calling read() on every device that is in the
\* run-queue, FakePTY or FakeUDP, before it chooses.
C19_ReadsEveryDevice ==
  [][(pc = "top" /\ pc' = "chosen") => drained' = DevicesIn(runqueue)]_vars

\* C20: without a lock, whenever the run-queue is not empty, index is one of
\* its positions 0 .. len(runqueue) - 1.
C20_IndexInQueue ==
  (~threadlock /\ runqueue # <<>>) => (0 <= index /\ index < Len(runqueue))

\* ------------------------------------------------ plan length and clock
\* C21: whatever addLeg calls have been made, the total length of the plan is
\* the sum of the lengths of its legs that are not negative: a sentinel leg
\* adds nothing to it.
C21_TotalIsFiniteSum ==
  plan.bound => plan.total = FiniteLength(plan.legs, Len(plan.legs))

\* A step of the simulator: nextPos(), called directly or through feed().
SimStepped == sim'.time # sim.time

\* The record dead reckoning starts from when the step has looked up course
\* and speed: the current position, or the start of the plan after a reset.
Sailing(lat, lon) ==
  [sim EXCEPT !.lat = lat, !.lon = lon, !.heading = sim'.heading, !.speed = sim'.speed]

\* C22 as stated: a step of a simulator bound to a plan applies the heading
\* and speed the plan gives for the clock before the step minus the start
\* clock.
C22_CourseAtClockBefore ==
  [][(SimStepped /\ plan.bound) =>
       /\ sim'.heading = CourseAtTime(plan, sim.time - sim.start).course
       /\ sim'.speed = CourseAtTime(plan, sim.time - sim.start).speed]_vars

\* C22, amended: a step of a simulator bound to a plan advances the clock by
\* one second first, applies the heading and speed the plan gives for the
\* advanced clock minus the start clock, and sails one dead-reckoning step
\* with them, from the current position or from the start of the plan.
C22_CourseAtClockAfter ==
  [][(SimStepped /\ plan.bound) =>
       /\ sim'.time = sim.time + 1
       /\ sim'.heading = CourseAtTime(plan, sim'.time - sim.start).course
       /\ sim'.speed = CourseAtTime(plan, sim'.time - sim.start).speed
       /\ <<sim'.lat, sim'.lon>> \in
            { DeadReckon(Sailing(sim.lat, sim.lon)),
              DeadReckon(Sailing(plan.startlat, plan.startlon)) }]_vars

\* A step has crossed from one leg to the next: the plan gives another
\* heading for the clock before the step than for the clock after it.
C22_Witness ==
  /\ plan.bound
  /\ StepsTaken >= 1
  /\ sim.heading = CourseAtTime(plan, StepsTaken).course
  /\ sim.heading # CourseAtTime(plan, StepsTaken - 1).course

\* The elapsed time is 0 or a multiple of the total length of the finite legs.
WrapsToZero(p, elapsed) ==
  LET finite == FiniteLength(p.legs, Len(p.legs))
  IN elapsed = 0 \/ (finite > 0 /\ elapsed % finite = 0)

\* C23: a step of a simulator bound to a plan starts from the current
\* position unless the elapsed time wraps to zero; the elapsed time is taken
\* at neither end of the second being sailed to be a wrap.
C23_ResetOnlyOnWrap ==
  [][(/\ SimStepped
      /\ plan.bound
      /\ ~WrapsToZero(plan, sim.time - sim.start)
      /\ ~WrapsToZero(plan, sim'.time - sim.start)) =>
       <<sim'.lat, sim'.lon>> = DeadReckon(Sailing(sim.lat, sim.lon))]_vars

\* ------------------------------------------------ turns of the scheduler
\* C24: every entry of the run-queue was put there by gps_add or client_add,
\* and a turn never fails on one of them with TestSessionError ("test object
\* of unknown type").
C24_NoUnknownEntry == error # "TestSessionError"

\* C26: on every turn that calls the continuation predicate of a device, the
\* index passed to it is the number of records the device has fed so far.
C26_IndexCountsFeeds ==
  [][\A d \in Devices :
       (TurnEnds /\ IsChosen(Gps(d)) /\ goResult' # "none")
         => goIndex' = fed[d]]_vars

\* C27: a device that has been marked exhausted and stays in the run-queue
\* is not fed again, whatever its predicate returns.
C27_ExhaustedNeverFed ==
  [][\A d \in Devices :
       (exhausted[d] # 0 /\ InQueue(Gps(d)) /\ d \in fakegpslist')
         => fed'[d] = fed[d]]_vars

\* C27, amended: a device that has been marked exhausted and stays registered
\* is fed again only by a turn that chose it before its grace interval was
\* over and got true from its predicate; a turn whose predicate call returns
\* false, and the turn that retires it, leave its feed count alone.
C27_ExhaustedFedOnlyOnTrue ==
  [][\A d \in Devices :
       (exhausted[d] # 0 /\ InQueue(Gps(d)) /\ d \in fakegpslist' /\ fed'[d] # fed[d])
         => /\ TurnEnds
            /\ IsChosen(Gps(d))
            /\ ~RetireEligible(d)
            /\ goResult' = "true"
            /\ fed'[d] = fed[d] + 1]_vars

\* Synchronous mode, between two turns: the device of the turn just ended
\* carries an exhausted stamp and the turn fed it.
C27_Witness ==
  /\ ~threadlock
  /\ pc = "top"
  /\ goResult = "true"
  /\ InRange(runqueue, chosenIdx)
  /\ \E d \in Devices :
       /\ ChosenObj = Gps(d)
       /\ exhausted[d] # 0
       /\ fed[d] > 0

\* C25: in synchronous mode an entry X is not chosen a second time while an
\* entry Y that is in the run-queue with it has had no turn since the last
\* turn of X.
C25_RoundRobin ==
  [][(~threadlock /\ pc = "top" /\ pc' = "chosen" /\ InRange(runqueue, index)) =>
       LET x == runqueue[PyPos(runqueue, index)]
       IN since[x] # {} =>
            \A i \in 1..Len(runqueue) : runqueue[i] = x \/ runqueue[i] \in since[x]]_vars
====
